---- MODULE Spec2Model ----
(***************************************************************************)
(* Model of bledger's U2F transport adapter (U2FDevice) and of the signing *)
(* input (LedgerTXInput), both in src/lib/devices/u2f.js.                  *)
(*                                                                         *)
(* Spec       the U2FDevice handle: concurrent exchange() calls, the lock, *)
(*            the support probe                                            *)
(* FairSpec   Spec plus the fairness the JavaScript job queue and a        *)
(*            timeout-honouring transport give                             *)
(* InputSpec  one LedgerTXInput: construction, fromOptions, the memoized   *)
(*            accessors and refresh()                                      *)
(* SessionSpec  the signing session of LedgerBcoin, as its tests and the   *)
(*            design describe it                                           *)
(* WrapSpec   wrapAPDU and its use in _exchange                            *)
(***************************************************************************)
EXTENDS Integers, Sequences, FiniteSets, TLC

(* ------------------------------ bounds -------------------------------- *)

\* number of exchange() calls made on the one device handle
MaxCalls == 3

Calls == 1..MaxCalls

\* number of coins Coin.fromTX builds in one run
MaxCoins == 2

\* the longest frame and the longest scramble key
MaxFrameLen == 3
MaxKeyLen == 2

\* the most inputs and outputs of a transaction to sign
MaxInputs == 2
MaxOutputs == 3

\* null / undefined
None == 0

(* ------------------------------ state --------------------------------- *)

VARIABLES
  \* U2FDevice
  busy,       \* this.lock.busy
  jobs,       \* this.lock.jobs: the calls waiting for the lock, oldest first
  pc,         \* where each exchange() call stands
  result,     \* what each exchange() call settled with
  arrival,    \* the calls in the order exchange() was invoked
  nsent,      \* per call, the requests handed to sign()
  devOp,      \* the last of open(), enforceSupport(), getDevices() called
  devRet,     \* how it settled
  supported,  \* what U2F.isSupported() resolved with in that call
  openFailed, \* an earlier open() was rejected
  \* LedgerTXInput
  built,      \* the caller holds a constructed LedgerTXInput
  path, tx, index, redeem, type, publicKey,
  _ring, _coin, _key, _prev,
  op,         \* the last operation on the input
  ret,        \* what it returned or threw
  ncoins,     \* coins built so far by Coin.fromTX
  coinObs,    \* the coin getCoin() returned since the last refresh()
  ringObs,    \* the ring getRing() returned since the last refresh()
  \* LedgerBcoin signing session
  mode,       \* "fresh" after beforeEach, "direct" after a lone hashSign(),
              \* "session" while a transaction is being signed
  nIn, nOut,  \* the inputs and outputs of the transaction being signed
  cmds,       \* the commands sent to the device, oldest first
  responses,  \* the approval flag in the device's response to each output
  flags,      \* the approval flags gathered for the caller
  epc,        \* the session: "idle", "running", "done" or "aborted"
  sret,       \* what the last call returned or threw
  \* wrapAPDU
  frame,      \* the bytes of the frame the caller passes to _exchange
  apdu,       \* the caller's buffer, as it stands
  key,        \* this.scrambleKey
  wrapped,    \* the buffer wrapAPDU returned
  keyHandle,  \* the bytes signRequest.keyHandle carries to the transport
  again,      \* wrapAPDU applied to wrapped, under the same key
  wpc         \* "none", "chosen", "sent", "twice"

lockVars == <<busy, jobs, pc, result, arrival, nsent>>

probeVars == <<devOp, devRet, supported, openFailed>>

devVars == <<lockVars, probeVars>>

inputVars == <<built, path, tx, index, redeem, type, publicKey,
               _ring, _coin, _key, _prev, op, ret, ncoins, coinObs, ringObs>>

sessVars == <<mode, nIn, nOut, cmds, responses, flags, epc, sret>>

wrapVars == <<frame, apdu, key, wrapped, keyHandle, again, wpc>>

nonDevVars == <<inputVars, sessVars, wrapVars>>

nonInputVars == <<devVars, sessVars, wrapVars>>

nonSessVars == <<devVars, inputVars, wrapVars>>

nonWrapVars == <<devVars, inputVars, sessVars>>

vars == <<devVars, inputVars, sessVars, wrapVars>>

(* ------------------------------ U2FDevice ----------------------------- *)

\* constructor: this.lock = new Lock(false); no call has been made
DevInit ==
  /\ busy = FALSE
  /\ jobs = <<>>
  /\ pc = [c \in Calls |-> "idle"]
  /\ result = [c \in Calls |-> "none"]
  /\ arrival = <<>>
  /\ nsent = [c \in Calls |-> 0]
  /\ devOp = "none" /\ devRet = "none"
  /\ supported = FALSE /\ openFailed = FALSE

\* a lock() that never marks the lock busy
lock_NoBusy(b, js, c) ==
  [busy |-> FALSE, jobs |-> js, granted |-> TRUE]

\* this.lock.lock(): a free lock is taken at once, a busy one queues the
\* caller behind those already waiting
lock(b, js, c) ==
  IF b
    THEN [busy |-> TRUE, jobs |-> Append(js, c), granted |-> FALSE]
    ELSE [busy |-> TRUE, jobs |-> js, granted |-> TRUE]

\* an unlock() that hands the lock to the newest waiter
unlock_LIFO(b, js) ==
  IF Len(js) = 0
    THEN [busy |-> FALSE, jobs |-> js, wake |-> None]
    ELSE [busy |-> TRUE, jobs |-> SubSeq(js, 1, Len(js) - 1), wake |-> js[Len(js)]]

\* unlock(): the lock is freed, or handed to the oldest waiter
unlock(b, js) ==
  IF Len(js) = 0
    THEN [busy |-> FALSE, jobs |-> js, wake |-> None]
    ELSE [busy |-> TRUE, jobs |-> Tail(js), wake |-> Head(js)]

\* exchange(apdu) up to its first await: this.lock.lock()
Exchange(c) ==
  /\ pc[c] = "idle"
  /\ LET l == lock(busy, jobs, c) IN
       /\ busy' = l.busy
       /\ jobs' = l.jobs
       /\ pc' = [pc EXCEPT ![c] = IF l.granted THEN "locked" ELSE "queued"]
  /\ arrival' = Append(arrival, c)
  /\ UNCHANGED <<result, nsent>>
  /\ UNCHANGED <<probeVars, nonDevVars>>

\* _exchange(apdu) up to its await: the wrapped request is handed to sign()
Send(c) ==
  /\ pc[c] = "locked"
  /\ pc' = [pc EXCEPT ![c] = "inflight"]
  /\ nsent' = [nsent EXCEPT ![c] = @ + 1]
  /\ UNCHANGED <<busy, jobs, result, arrival>>
  /\ UNCHANGED <<probeVars, nonDevVars>>

\* sign() resolves with the device's signatureData
Respond(c) ==
  /\ pc[c] = "inflight"
  /\ pc' = [pc EXCEPT ![c] = "settled"]
  /\ result' = [result EXCEPT ![c] = "Response"]
  /\ UNCHANGED <<busy, jobs, arrival, nsent>>
  /\ UNCHANGED <<probeVars, nonDevVars>>

\* sign() rejects: the timeout passed, or the transport failed
Fail(c) ==
  /\ pc[c] = "inflight"
  /\ pc' = [pc EXCEPT ![c] = "settled"]
  /\ \E e \in {"Timeout", "Transport"} : result' = [result EXCEPT ![c] = e]
  /\ UNCHANGED <<busy, jobs, arrival, nsent>>
  /\ UNCHANGED <<probeVars, nonDevVars>>

\* an exchange() that unlocks only after a response
Finish_NoFinally(c) ==
  /\ pc[c] = "settled"
  /\ LET u == IF result[c] = "Response" THEN unlock(busy, jobs)
              ELSE [busy |-> busy, jobs |-> jobs, wake |-> None] IN
       /\ busy' = u.busy
       /\ jobs' = u.jobs
       /\ pc' = [d \in Calls |->
                   IF d = c THEN "done"
                   ELSE IF d = u.wake THEN "locked"
                   ELSE pc[d]]
  /\ UNCHANGED <<result, arrival, nsent>>
  /\ UNCHANGED <<probeVars, nonDevVars>>

\* an exchange() that sends a failed request again
Finish_Retry(c) ==
  /\ pc[c] = "settled"
  /\ IF result[c] = "Response"
       THEN LET u == unlock(busy, jobs) IN
              /\ busy' = u.busy
              /\ jobs' = u.jobs
              /\ pc' = [d \in Calls |->
                          IF d = c THEN "done"
                          ELSE IF d = u.wake THEN "locked"
                          ELSE pc[d]]
       ELSE /\ pc' = [pc EXCEPT ![c] = "locked"]
            /\ UNCHANGED <<busy, jobs>>
  /\ UNCHANGED <<result, arrival, nsent>>
  /\ UNCHANGED <<probeVars, nonDevVars>>

\* exchange() after _exchange settled: finally { unlock() }, then the call
\* returns the response or rethrows
Finish(c) ==
  /\ pc[c] = "settled"
  /\ LET u == unlock(busy, jobs) IN
       /\ busy' = u.busy
       /\ jobs' = u.jobs
       /\ pc' = [d \in Calls |->
                   IF d = c THEN "done"
                   ELSE IF d = u.wake THEN "locked"
                   ELSE pc[d]]
  /\ UNCHANGED <<result, arrival, nsent>>
  /\ UNCHANGED <<probeVars, nonDevVars>>

\* an enforceSupport() that never throws
enforceSupport_NoThrow(s) == "ok"

\* enforceSupport(): throws the LedgerError when the probe is negative
enforceSupport(s) == IF s THEN "ok" ELSE "Unsupported"

\* open(): await U2FDevice.enforceSupport(); s is what U2F.isSupported()
\* resolves with in this call
Open(s) ==
  /\ devOp' = "open"
  /\ supported' = s
  /\ devRet' = enforceSupport(s)
  /\ openFailed' = (openFailed \/ (devOp = "open" /\ devRet = "Unsupported"))
  /\ UNCHANGED <<lockVars, nonDevVars>>

\* U2FDevice.enforceSupport()
EnforceSupport(s) ==
  /\ devOp' = "enforceSupport"
  /\ supported' = s
  /\ devRet' = enforceSupport(s)
  /\ openFailed' = (openFailed \/ (devOp = "open" /\ devRet = "Unsupported"))
  /\ UNCHANGED <<lockVars, nonDevVars>>

\* U2FDevice.getDevices(): enforceSupport(), then [new DeviceInfo()]
GetDevices(s) ==
  /\ devOp' = "getDevices"
  /\ supported' = s
  /\ devRet' = IF enforceSupport(s) = "ok" THEN "devices" ELSE enforceSupport(s)
  /\ openFailed' = (openFailed \/ (devOp = "open" /\ devRet = "Unsupported"))
  /\ UNCHANGED <<lockVars, nonDevVars>>

(* ------------------------------ LedgerTXInput ------------------------- *)

\* Script.hashType of bcoin
ALL == 1

\* a sighash type other than ALL
SIGHASH_NONE == ALL + 1

\* the values a caller passes ----------------------------------------------

\* two source transactions: transaction t has t outputs
Txs == {1, 2}
Indexes == {0, 1}

\* tx.outputs.length, and tx.outputs[i].script (i counts from 0)
NumOutputs(t) == t
OutputScript(t, i) == 10 * t + i

\* a redeem Script and a public key Buffer
RedeemScript == 7
PublicKey == 33

\* Every option is a pair [k, v]: k tells what kind of value the caller put
\* there ("none": null or undefined; "other": a value of a wrong type).

\* options that pass every check but, for some, the sighash check
GoodOptions ==
  [path : {[k |-> "arr", v |-> <<44>>]},
   tx : {[k |-> "tx", v |-> t] : t \in Txs},
   index : {[k |-> "num", v |-> i] : i \in Indexes},
   type : {None},
   redeem : {[k |-> "none", v |-> None], [k |-> "script", v |-> RedeemScript]},
   publicKey : {[k |-> "none", v |-> None], [k |-> "buffer", v |-> PublicKey]}]

BaseOptions ==
  [path |-> [k |-> "arr", v |-> <<44>>], tx |-> [k |-> "tx", v |-> 1],
   index |-> [k |-> "num", v |-> 0], type |-> None,
   redeem |-> [k |-> "none", v |-> None],
   publicKey |-> [k |-> "none", v |-> None]]

\* BaseOptions with one option changed: a missing path, the empty string, a
\* path of a wrong type, the empty array; a missing tx, a non-TX, raw bytes;
\* a missing or negative index; a sighash type; a non-Script; a non-Buffer
VariedOptions ==
  {[BaseOptions EXCEPT !.path = x] :
     x \in {[k |-> "none", v |-> <<>>], [k |-> "str", v |-> <<>>],
            [k |-> "other", v |-> <<>>], [k |-> "arr", v |-> <<>>]}}
  \cup {[BaseOptions EXCEPT !.tx = x] :
     x \in {[k |-> "none", v |-> None], [k |-> "other", v |-> None],
            [k |-> "raw", v |-> 1], [k |-> "raw", v |-> 2]}}
  \cup {[BaseOptions EXCEPT !.index = x] :
     x \in {[k |-> "none", v |-> 0], [k |-> "num", v |-> -1]}}
  \cup {[BaseOptions EXCEPT !.type = x] : x \in {ALL, SIGHASH_NONE}}
  \cup {[BaseOptions EXCEPT !.redeem = [k |-> "other", v |-> None]]}
  \cup {[BaseOptions EXCEPT !.publicKey = [k |-> "other", v |-> None]]}

Options == GoodOptions \cup VariedOptions

Heights == {0, 1}

\* Network.primary
Networks == {"main"}

\* an empty cache slot (null), and an empty return value
NoCoin == [id |-> 0, tx |-> 0, index |-> 0, height |-> 0]
NoRing == [key |-> 0, network |-> "", script |-> 0]
NoKey == <<>>
NoRet == [err |-> "", field |-> "", coin |-> NoCoin, ring |-> NoRing]

Threw(e, f) == [err |-> e, field |-> f, coin |-> NoCoin, ring |-> NoRing]

\* the fields of the instance, as one record
self ==
  [path |-> path, tx |-> tx, index |-> index, redeem |-> redeem,
   type |-> type, publicKey |-> publicKey]

\* constructor, lines 243-248: the fields of a new instance
Defaults ==
  [path |-> <<>>, tx |-> None, index |-> 0, redeem |-> None,
   type |-> ALL, publicKey |-> None]

\* (value >>> 0) === value: an integer in 0 .. 2^32 - 1
isU32(value) == value >= 0 /\ value \div 65536 < 65536

\* a fromOptions that rejects every sighash type but ALL
fromOptions_OnlyAll(s, o) ==
  IF o.path.k # "arr" \/ o.tx.k \notin {"tx", "raw"}
     \/ o.index.k # "num" \/ ~isU32(o.index.v)
     \/ (o.type # None /\ o.type # ALL)
     \/ o.redeem.k = "other" \/ o.publicKey.k = "other"
    THEN [s |-> s, err |-> "InvalidInput", field |-> "any"]
    ELSE [s |-> [path |-> o.path.v, tx |-> o.tx.v, index |-> o.index.v,
                 redeem |-> IF o.redeem.k = "script" THEN o.redeem.v ELSE s.redeem,
                 type |-> IF o.type # None THEN o.type ELSE s.type,
                 publicKey |-> IF o.publicKey.k = "buffer" THEN o.publicKey.v
                               ELSE s.publicKey],
          err |-> "", field |-> ""]

\* fromOptions(options) on the instance s: the fields as the call leaves them
\* (each is assigned as soon as its own checks pass), and the assertion that
\* failed, if one did
fromOptions(s, o) ==
  LET fail(r, f) == [s |-> r, err |-> "InvalidInput", field |-> f]
      s1 == [s  EXCEPT !.path = o.path.v]
      s2 == [s1 EXCEPT !.tx = o.tx.v]
      s3 == [s2 EXCEPT !.index = o.index.v]
      s4 == IF o.type # None THEN [s3 EXCEPT !.type = o.type] ELSE s3
      s5 == IF o.redeem.k # "none" THEN [s4 EXCEPT !.redeem = o.redeem.v] ELSE s4
      s6 == IF o.publicKey.k # "none"
              THEN [s5 EXCEPT !.publicKey = o.publicKey.v] ELSE s5
  IN
  IF o.path.k \in {"none", "str"}             THEN fail(s, "path")
  ELSE IF o.path.k # "arr"                    THEN fail(s, "path")
  ELSE IF o.tx.k = "none"                     THEN fail(s1, "tx")
  ELSE IF o.tx.k \notin {"tx", "raw"}         THEN fail(s1, "tx")
  ELSE IF o.index.k # "num"                   THEN fail(s2, "index")
  ELSE IF ~isU32(o.index.v)                   THEN fail(s2, "index")
  ELSE IF o.type # None /\ o.type = ALL       THEN fail(s3, "type")
  ELSE IF o.redeem.k = "other"                THEN fail(s4, "redeem")
  ELSE IF o.publicKey.k = "other"             THEN fail(s5, "publicKey")
  ELSE [s |-> s6, err |-> "", field |-> ""]

\* toKey(): [cache, thrown error]
toKey(k, t, i) ==
  IF k # NoKey THEN [key |-> k, err |-> ""]
  ELSE IF t = None THEN [key |-> k, err |-> "TypeError"]
  ELSE [key |-> <<t, i>>, err |-> ""]

\* getPrev(): [cache, thrown error]
getPrev(p, t, i) ==
  IF p # None THEN [prev |-> p, err |-> ""]
  ELSE IF t = None \/ i >= NumOutputs(t) THEN [prev |-> p, err |-> "TypeError"]
  ELSE [prev |-> OutputScript(t, i), err |-> ""]

\* a getCoin that builds a coin on every call
getCoin_NoCache(c, t, i, height, id) ==
  IF t = None \/ i >= NumOutputs(t) THEN [coin |-> c, err |-> "TypeError"]
  ELSE [coin |-> [id |-> id, tx |-> t, index |-> i, height |-> height],
        err |-> ""]

\* getCoin(height): [cache, thrown error]; id names the object Coin.fromTX
\* would allocate
getCoin(c, t, i, height, id) ==
  IF c # NoCoin THEN [coin |-> c, err |-> ""]
  ELSE IF t = None \/ i >= NumOutputs(t) THEN [coin |-> c, err |-> "TypeError"]
  ELSE [coin |-> [id |-> id, tx |-> t, index |-> i, height |-> height],
        err |-> ""]

\* a getRing that looks at the cache before the public key
getRing_NoKeyCheck(r, pk, rd, network) ==
  IF r # NoRing THEN [ring |-> r, err |-> ""]
  ELSE [ring |-> [key |-> pk, network |-> network, script |-> rd], err |-> ""]

\* a getRing that leaves the ring's script alone
getRing_NoScript(r, pk, rd, network) ==
  IF pk = None THEN [ring |-> r, err |-> "MissingKey"]
  ELSE IF r # NoRing THEN [ring |-> r, err |-> ""]
  ELSE [ring |-> [key |-> pk, network |-> network, script |-> None], err |-> ""]

\* getRing(network): [cache, thrown error]
getRing(r, pk, rd, network) ==
  IF pk = None THEN [ring |-> r, err |-> "MissingKey"]
  ELSE IF r # NoRing THEN [ring |-> r, err |-> ""]
  ELSE [ring |-> [key |-> pk, network |-> network, script |-> rd], err |-> ""]

\* a refresh that forgets the previous script
refresh_KeepsPrev(p) ==
  [coin |-> NoCoin, ring |-> NoRing, key |-> NoKey, prev |-> p]

\* refresh(): the four caches as the call leaves them
refresh(p) ==
  [coin |-> NoCoin, ring |-> NoRing, key |-> NoKey, prev |-> None]

InputInit ==
  /\ built = FALSE
  /\ path = Defaults.path /\ tx = Defaults.tx /\ index = Defaults.index
  /\ redeem = Defaults.redeem /\ type = Defaults.type
  /\ publicKey = Defaults.publicKey
  /\ _ring = NoRing /\ _coin = NoCoin /\ _key = NoKey /\ _prev = None
  /\ op = "none" /\ ret = NoRet
  /\ ncoins = 0 /\ coinObs = NoCoin /\ ringObs = NoRing

SetFields(s) ==
  /\ path' = s.path /\ tx' = s.tx /\ index' = s.index
  /\ redeem' = s.redeem /\ type' = s.type /\ publicKey' = s.publicKey

fieldVars == <<path, tx, index, redeem, type, publicKey>>
cacheVars == <<_ring, _coin, _key, _prev>>
obsVars == <<ncoins, coinObs, ringObs>>

\* new LedgerTXInput(): no options, the defaults stand
ConstructDefault ==
  /\ ~built
  /\ built' = TRUE
  /\ op' = "new" /\ ret' = NoRet
  /\ UNCHANGED <<fieldVars, cacheVars, obsVars>>
  /\ UNCHANGED nonInputVars

\* new LedgerTXInput(options) and LedgerTXInput.fromOptions(options): a throw
\* in fromOptions leaves the caller without an instance
Construct(o) ==
  /\ ~built
  /\ LET r == fromOptions(Defaults, o) IN
       /\ built' = (r.err = "")
       /\ SetFields(IF r.err = "" THEN r.s ELSE Defaults)
       /\ ret' = Threw(r.err, r.field)
  /\ op' = "new"
  /\ UNCHANGED <<cacheVars, obsVars>>
  /\ UNCHANGED nonInputVars

\* input.fromOptions(options) on the instance the caller holds
FromOptions(o) ==
  /\ built
  /\ LET r == fromOptions(self, o) IN
       /\ SetFields(r.s)
       /\ ret' = Threw(r.err, r.field)
  /\ op' = "fromOptions"
  /\ UNCHANGED <<built, cacheVars, obsVars>>
  /\ UNCHANGED nonInputVars

ToKey ==
  /\ built
  /\ LET r == toKey(_key, tx, index) IN
       /\ _key' = r.key
       /\ ret' = Threw(r.err, "")
  /\ op' = "toKey"
  /\ UNCHANGED <<built, fieldVars, _ring, _coin, _prev, obsVars>>
  /\ UNCHANGED nonInputVars

GetPrev ==
  /\ built
  /\ LET r == getPrev(_prev, tx, index) IN
       /\ _prev' = r.prev
       /\ ret' = Threw(r.err, "")
  /\ op' = "getPrev"
  /\ UNCHANGED <<built, fieldVars, _ring, _coin, _key, obsVars>>
  /\ UNCHANGED nonInputVars

GetCoin(height) ==
  /\ built
  /\ _coin # NoCoin \/ ncoins < MaxCoins
  /\ LET r == getCoin(_coin, tx, index, height, ncoins + 1) IN
       /\ _coin' = r.coin
       /\ ncoins' = IF r.coin.id = ncoins + 1 THEN ncoins + 1 ELSE ncoins
       /\ ret' = IF r.err = "" THEN [NoRet EXCEPT !.coin = r.coin]
                 ELSE Threw(r.err, "")
       /\ coinObs' = IF r.err = "" THEN r.coin ELSE coinObs
  /\ op' = "getCoin"
  /\ UNCHANGED <<built, fieldVars, _ring, _key, _prev, ringObs>>
  /\ UNCHANGED nonInputVars

GetRing(network) ==
  /\ built
  /\ LET r == getRing(_ring, publicKey, redeem, network) IN
       /\ _ring' = r.ring
       /\ ret' = IF r.err = "" THEN [NoRet EXCEPT !.ring = r.ring]
                 ELSE Threw(r.err, "")
       /\ ringObs' = IF r.err = "" THEN r.ring ELSE ringObs
  /\ op' = "getRing"
  /\ UNCHANGED <<built, fieldVars, _coin, _key, _prev, ncoins, coinObs>>
  /\ UNCHANGED nonInputVars

Refresh ==
  /\ built
  /\ LET r == refresh(_prev) IN
       /\ _coin' = r.coin /\ _ring' = r.ring /\ _key' = r.key /\ _prev' = r.prev
  /\ op' = "refresh" /\ ret' = NoRet
  /\ coinObs' = NoCoin /\ ringObs' = NoRing
  /\ UNCHANGED <<built, fieldVars, ncoins>>
  /\ UNCHANGED nonInputVars

InputNext ==
  \/ ConstructDefault
  \/ \E o \in Options : Construct(o)
  \/ \E o \in Options : FromOptions(o)
  \/ ToKey
  \/ GetPrev
  \/ \E h \in Heights : GetCoin(h)
  \/ \E n \in Networks : GetRing(n)
  \/ Refresh

(* ------------------------------ signing session ---------------------- *)

\* beforeEach: a new Device and a new LedgerBcoin on it
SessInit ==
  /\ mode = "fresh"
  /\ nIn = 0 /\ nOut = 0
  /\ cmds = <<>> /\ responses = <<>> /\ flags = <<>>
  /\ epc = "idle" /\ sret = "none"

\* the number of commands of one kind sent so far
Count(kind) == Cardinality({i \in 1..Len(cmds) : cmds[i] = kind})

\* a hashSign() that refuses to sign when no hash-start was issued
hashSign_Ordered(started, log) ==
  IF started THEN [cmds |-> Append(log, "sign"), ret |-> "signature"]
  ELSE [cmds |-> log, ret |-> "OutOfOrder"]

\* bcoinApp.hashSign(tx, path, sigType) as its test has it: the sign command
\* goes to the device and the signature of the response comes back, on an
\* app that has sent nothing yet as well
hashSign(started, log) ==
  [cmds |-> Append(log, "sign"), ret |-> "signature"]

\* flags that keep only the newest response
gather_Last(fs, f) == <<f>>

\* the flag of one more output joins those gathered, at the end
gather(fs, f) == Append(fs, f)

\* beforeEach of the test suite: device and app are replaced by new ones
BeforeEach ==
  /\ mode # "fresh"
  /\ mode' = "fresh"
  /\ nIn' = 0 /\ nOut' = 0
  /\ cmds' = <<>> /\ responses' = <<>> /\ flags' = <<>>
  /\ epc' = "idle" /\ sret' = "none"
  /\ UNCHANGED nonSessVars

\* 'should handle hashSign': hashSign() is the first call on a new app
DirectHashSign ==
  /\ mode = "fresh"
  /\ mode' = "direct"
  /\ LET r == hashSign(FALSE, cmds) IN
       /\ cmds' = r.cmds
       /\ sret' = r.ret
  /\ UNCHANGED <<nIn, nOut, responses, flags, epc>>
  /\ UNCHANGED nonSessVars

\* a signing session begins on a transaction of n inputs and m outputs: the
\* hash-start command is sent
HashStart(n, m) ==
  /\ mode = "fresh"
  /\ mode' = "session" /\ epc' = "running"
  /\ nIn' = n /\ nOut' = m
  /\ cmds' = Append(cmds, "start")
  /\ UNCHANGED <<responses, flags, sret>>
  /\ UNCHANGED nonSessVars

\* the continuation command of the next input
HashInput ==
  /\ epc = "running" /\ Count("input") < nIn
  /\ cmds' = Append(cmds, "input")
  /\ UNCHANGED <<mode, nIn, nOut, responses, flags, epc, sret>>
  /\ UNCHANGED nonSessVars

\* the continuation/finalize command of the next output; the device answers
\* with the approval flag f of that output
HashOutputFinalize(f) ==
  /\ epc = "running" /\ Count("input") = nIn /\ Count("output") < nOut
  /\ cmds' = Append(cmds, "output")
  /\ responses' = Append(responses, f)
  /\ flags' = gather(flags, f)
  /\ UNCHANGED <<mode, nIn, nOut, epc, sret>>
  /\ UNCHANGED nonSessVars

\* a session that signs as soon as the inputs are hashed
HashSign_Early ==
  /\ epc = "running" /\ Count("input") = nIn
  /\ LET r == hashSign(TRUE, cmds) IN
       /\ cmds' = r.cmds
       /\ sret' = r.ret
  /\ epc' = "done"
  /\ UNCHANGED <<mode, nIn, nOut, responses, flags>>
  /\ UNCHANGED nonSessVars

\* the sign command, once every output is finalized
HashSign ==
  /\ epc = "running" /\ Count("input") = nIn /\ Count("output") = nOut
  /\ LET r == hashSign(TRUE, cmds) IN
       /\ cmds' = r.cmds
       /\ sret' = r.ret
  /\ epc' = "done"
  /\ UNCHANGED <<mode, nIn, nOut, responses, flags>>
  /\ UNCHANGED nonSessVars

\* a command fails (transport, timeout or a status word other than 0x9000):
\* the session aborts and no signature is returned
Abort(e) ==
  /\ epc = "running"
  /\ epc' = "aborted"
  /\ sret' = e
  /\ UNCHANGED <<mode, nIn, nOut, cmds, responses, flags>>
  /\ UNCHANGED nonSessVars

SessNext ==
  \/ BeforeEach
  \/ DirectHashSign
  \/ \E n \in 1..MaxInputs, m \in 1..MaxOutputs : HashStart(n, m)
  \/ HashInput
  \/ \E f \in BOOLEAN : HashOutputFinalize(f)
  \/ HashSign
  \/ \E e \in {"Transport", "Timeout", "DeviceRejected"} : Abort(e)

(* ------------------------------ wrapAPDU ------------------------------ *)

\* the byte values frames and keys are made of
Bytes == {0, 90, 255}

Frames == UNION {[1..n -> Bytes] : n \in 0..MaxFrameLen}
Keys == UNION {[1..n -> Bytes] : n \in 0..MaxKeyLen}

WrapInit ==
  /\ frame = <<>> /\ apdu = <<>> /\ key = <<>>
  /\ wrapped = <<>> /\ keyHandle = <<>> /\ again = <<>>
  /\ wpc = "none"

\* a ^ that sets a bit when either operand has it
RECURSIVE xor_Or(_, _)
xor_Or(a, b) ==
  IF a = 0 THEN b
  ELSE IF b = 0 THEN a
  ELSE (IF (a % 2) + (b % 2) > 0 THEN 1 ELSE 0) + 2 * xor_Or(a \div 2, b \div 2)

\* a ^ b on bytes
RECURSIVE xor(_, _)
xor(a, b) ==
  IF a = 0 THEN b
  ELSE IF b = 0 THEN a
  ELSE ((a + b) % 2) + 2 * xor(a \div 2, b \div 2)

\* key[i % key.length], i counting from 0; undefined (0 under ^) when the
\* key is empty
keyByte(k, i) == IF Len(k) = 0 THEN 0 ELSE k[(i % Len(k)) + 1]

\* key[i]: undefined (0 under ^) past the end of the key
keyByte_NoModulo(k, i) == IF i < Len(k) THEN k[i + 1] ELSE 0

\* the loop of wrapAPDU from index i on
RECURSIVE wrapLoop(_, _, _, _)
wrapLoop(res, a, k, i) ==
  IF i < Len(a)
    THEN wrapLoop([res EXCEPT ![i + 1] = xor(a[i + 1], keyByte(k, i))],
                  a, k, i + 1)
    ELSE res

RECURSIVE wrapLoop_NoModulo(_, _, _, _)
wrapLoop_NoModulo(res, a, k, i) ==
  IF i < Len(a)
    THEN wrapLoop_NoModulo(
           [res EXCEPT ![i + 1] = xor(a[i + 1], keyByte_NoModulo(k, i))],
           a, k, i + 1)
    ELSE res

\* a wrapAPDU that indexes the key without wrapping around
wrapAPDU_NoModulo(a, k) ==
  [result |-> wrapLoop_NoModulo([i \in 1..Len(a) |-> 0], a, k, 0), apdu |-> a]

\* wrapAPDU(apdu, key): the buffer it returns (zero-filled by Buffer.alloc,
\* then written byte by byte) and the caller's buffer after the call
wrapAPDU(a, k) ==
  [result |-> wrapLoop([i \in 1..Len(a) |-> 0], a, k, 0), apdu |-> a]

\* the caller has a frame for a device with a scramble key
ChooseFrame(a, k) ==
  /\ wpc = "none"
  /\ wpc' = "chosen"
  /\ frame' = a /\ apdu' = a /\ key' = k
  /\ UNCHANGED <<wrapped, keyHandle, again>>
  /\ UNCHANGED nonWrapVars

\* _exchange, lines 97-103: the frame is wrapped and put in the sign request
\* as keyHandle (web-safe base64 of these bytes)
WrapAndSend ==
  /\ wpc = "chosen"
  /\ wpc' = "sent"
  /\ LET r == wrapAPDU(apdu, key) IN
       /\ wrapped' = r.result
       /\ keyHandle' = r.result
       /\ apdu' = r.apdu
  /\ UNCHANGED <<frame, key, again>>
  /\ UNCHANGED nonWrapVars

\* wrapAPDU applied to what it returned, under the same key
WrapAgain ==
  /\ wpc = "sent"
  /\ wpc' = "twice"
  /\ LET r == wrapAPDU(wrapped, key) IN
       /\ again' = r.result
       /\ wrapped' = r.apdu
  /\ UNCHANGED <<frame, apdu, key, keyHandle>>
  /\ UNCHANGED nonWrapVars

WrapNext ==
  \/ \E a \in Frames, k \in Keys : ChooseFrame(a, k)
  \/ WrapAndSend
  \/ WrapAgain

Init == DevInit /\ InputInit /\ SessInit /\ WrapInit

Next ==
  \/ \E c \in Calls : Exchange(c)
  \/ \E c \in Calls : Send(c)
  \/ \E c \in Calls : Respond(c)
  \/ \E c \in Calls : Fail(c)
  \/ \E c \in Calls : Finish(c)
  \/ \E s \in BOOLEAN : Open(s)
  \/ \E s \in BOOLEAN : EnforceSupport(s)
  \/ \E s \in BOOLEAN : GetDevices(s)

Spec == Init /\ [][Next]_vars

InputSpec == Init /\ [][InputNext]_vars

SessionSpec == Init /\ [][SessNext]_vars

WrapSpec == Init /\ [][WrapNext]_vars

\* The job queue runs every continuation that is ready (Send, Finish), and a
\* transport that honours the timeout settles every request it was given.
FairSpec ==
  /\ Spec
  /\ \A c \in Calls :
       /\ WF_vars(Send(c))
       /\ WF_vars(Respond(c) \/ Fail(c))
       /\ WF_vars(Finish(c))

(* ------------------------------ claims -------------------------------- *)

\* the calls inside _exchange: a request outstanding at the transport, or its
\* settlement not yet taken out of _exchange
InExchange == {c \in Calls : pc[c] \in {"inflight", "settled"}}

\* call a invoked exchange() before call b
ArrivedBefore(a, b) ==
  \E i, j \in 1..Len(arrival) : i < j /\ arrival[i] = a /\ arrival[j] = b

\* C1: at most one exchange() call is inside _exchange at any time
C1_MutualExclusion == Cardinality(InExchange) <= 1

\* two calls have been made and one is inside _exchange while another waits
C1_Witness ==
  \E a, b \in Calls : a # b /\ pc[a] = "inflight" /\ pc[b] = "queued"

\* C2: a call's request is sent only after every call that arrived before it
\* has returned its response or failed
C2_FifoOrder ==
  \A a, b \in Calls :
    (ArrivedBefore(a, b) /\ nsent[b] > 0) => pc[a] = "done"

\* three calls arrived, the first two are over in arrival order, the third
\* has its request at the transport
C2_Witness ==
  /\ Len(arrival) = 3
  /\ pc[arrival[1]] = "done"
  /\ pc[arrival[2]] = "done"
  /\ pc[arrival[3]] = "inflight"

\* C3: every exchange() call made eventually completes
C3_EveryCallCompletes ==
  \A c \in Calls : (pc[c] # "idle") ~> (pc[c] = "done")

\* a call that queued behind a failing exchange completed with a response
C3_Witness ==
  \E a, b \in Calls :
    /\ ArrivedBefore(a, b)
    /\ pc[a] = "done" /\ result[a] \in {"Timeout", "Transport"}
    /\ pc[b] = "done" /\ result[b] = "Response"

C5_PathNonEmpty == (built /\ tx # None) => Len(path) > 0

\* C6: every input constructed from options has an output index below the
\* number of outputs of its source transaction, and getPrev() never reads
\* an output that does not exist
C6_IndexInRange ==
  /\ (built /\ tx # None) => index < NumOutputs(tx)
  /\ (op = "getPrev" /\ tx # None) => ret.err = ""

\* C7: with no refresh() since a getCoin() returned, getCoin() returns that
\* same coin and builds none; the first getCoin() after a refresh() (or after
\* construction) that returns, returns a coin built in that call from the
\* current tx and index
C7_CoinCachedUntilRefresh ==
  [][op' = "getCoin" =>
       IF coinObs # NoCoin
         THEN ret'.err = "" /\ ret'.coin = coinObs /\ ncoins' = ncoins
         ELSE ret'.err = "" =>
                /\ ret'.coin.id = ncoins + 1 /\ ncoins' = ncoins + 1
                /\ ret'.coin.tx = tx /\ ret'.coin.index = index]_vars

\* a second coin was built after a refresh(), and a later getCoin() returned
\* it from the cache although tx had changed meanwhile
C7_Witness ==
  /\ op = "getCoin" /\ ret.coin.id = 2 /\ ncoins = 2
  /\ ret.coin.tx # tx

\* C8: refresh() empties the four caches and changes no field
C8_RefreshClearsCaches ==
  [][op' = "refresh" =>
       /\ _key' = NoKey /\ _prev' = None /\ _coin' = NoCoin /\ _ring' = NoRing
       /\ UNCHANGED <<path, tx, index, redeem, type, publicKey>>]_vars

\* refresh() ran on an input that had a coin built and holds a redeem script
\* and a public key
C8_Witness ==
  /\ op = "refresh" /\ ncoins > 0
  /\ redeem # None /\ publicKey # None /\ _coin = NoCoin

\* C9: getRing() without a public key fails with MissingKey, caches nothing
\* and changes no field
C9_GetRingMissingKey ==
  [][(op' = "getRing" /\ publicKey = None) =>
       /\ ret'.err = "MissingKey"
       /\ UNCHANGED <<_ring, _coin, _key, _prev>>
       /\ UNCHANGED <<path, tx, index, redeem, type, publicKey>>]_vars

\* getRing() failed on an input whose other accessors had been used
C9_Witness ==
  /\ op = "getRing" /\ ret.err = "MissingKey"
  /\ _coin # NoCoin /\ _key # NoKey /\ _prev # None

\* C10 as stated: getRing() on an input with a public key returns a ring whose
\* script is the redeem script, whenever the input holds a redeem script
C10_RingScriptIsRedeem ==
  [][(op' = "getRing" /\ publicKey # None /\ redeem # None) =>
       ret'.ring.script = redeem]_vars

\* C10 amended: the first getRing() after construction or refresh() returns a
\* ring whose script is the redeem script the input then holds; later calls
\* return that same ring until refresh()
C10_FirstRingScriptIsRedeem ==
  [][(op' = "getRing" /\ publicKey # None) =>
       /\ ret'.err = ""
       /\ IF ringObs = NoRing
            THEN redeem # None => ret'.ring.script = redeem
            ELSE ret'.ring = ringObs]_vars

\* getRing() returned a ring carrying the redeem script
C10_Witness ==
  op = "getRing" /\ redeem # None /\ ret.ring.script = redeem

\* C11: open(), enforceSupport() and getDevices() succeed exactly when the
\* probe run in that call is positive and fail with Unsupported when it is
\* negative, whatever an earlier open() did
C11_ProbeDecidesEveryCall ==
  /\ devOp = "open" => (devRet = "ok" <=> supported)
  /\ devOp = "enforceSupport" => (devRet = "ok" <=> supported)
  /\ devOp = "getDevices" => (devRet = "devices" <=> supported)
  /\ devOp # "none" => (devRet = "Unsupported" <=> ~supported)

\* an open() succeeded after an earlier open() had been rejected
C11_Witness == devOp = "open" /\ devRet = "ok" /\ openFailed

\* C12: every exchange() call hands exactly one request to the transport,
\* whether it ends with a response, a timeout or a transport failure
C12_OneRequestPerCall ==
  \A c \in Calls :
    /\ nsent[c] <= 1
    /\ pc[c] \in {"inflight", "settled", "done"} => nsent[c] = 1

\* a call that timed out and a call that failed are over, one request each
C12_Witness ==
  \E a, b \in Calls :
    /\ pc[a] = "done" /\ result[a] = "Timeout" /\ nsent[a] = 1
    /\ pc[b] = "done" /\ result[b] = "Transport" /\ nsent[b] = 1

\* the place of a kind of command in the order of a session
Rank(kind) ==
  CASE kind = "start" -> 0 [] kind = "input" -> 1
    [] kind = "output" -> 2 [] kind = "sign" -> 3

C15_FlagsPerOutput ==
  mode = "session" =>
    /\ flags = responses
    /\ Len(flags) = Count("output")
    /\ epc = "done" => Len(flags) = nOut

\* three outputs were finalized with different answers
C15_Witness ==
  /\ mode = "session" /\ nOut = 3 /\ Len(flags) = 3
  /\ flags[1] /\ ~flags[2] /\ flags[3]

\* bit j of byte x
Bit(x, j) == (x \div (2 ^ j)) % 2

\* C16: what _exchange sends is the frame wrapped once: as long as the frame,
\* and every bit of byte i is the exclusive or of that bit of frame[i] and of
\* key[i mod key.length], for every key of positive length
C16_SentFrameIsXorOfKey ==
  (wpc \in {"sent", "twice"} /\ Len(key) > 0) =>
    /\ Len(keyHandle) = Len(frame)
    /\ \A i \in 0..(Len(frame) - 1) : \A j \in 0..7 :
         Bit(keyHandle[i + 1], j) =
           (Bit(frame[i + 1], j) + Bit(key[(i % Len(key)) + 1], j)) % 2

\* a frame longer than its key was sent, the key wrapping around and the last
\* byte changed by it
C16_Witness ==
  /\ wpc = "sent" /\ Len(frame) = 3 /\ Len(key) = 2
  /\ keyHandle[3] # frame[3]

\* C20: wrapAPDU applied twice under a key of positive length gives back the
\* frame, byte for byte and of the same length, and no call changes the
\* buffer it was given
C20_WrapIsInvolution ==
  /\ apdu = frame
  /\ wpc \in {"sent", "twice"} => wrapped = keyHandle
  /\ (wpc = "twice" /\ Len(key) > 0) => again = frame

\* a frame that wrapping changed came back after the second wrapping
C20_Witness ==
  wpc = "twice" /\ Len(key) > 0 /\ Len(frame) = 3 /\ wrapped # frame /\ again = frame

\* C17: every getCoin(height) that returns, returns a coin at the height
\* passed in that call
C17_CoinAtPassedHeight ==
  [][\A h \in Heights :
       (GetCoin(h) /\ ret'.err = "") => ret'.coin.height = h]_vars

\* C18: every input that construction accepts carries the sighash type ALL
C18_OnlySighashAll == built => type = ALL

\* C19: a fromOptions() call on an instance that fails leaves path, tx, index,
\* redeem, type and publicKey as they were
C19_FailedFromOptionsKeepsFields ==
  [][(built /\ op' = "fromOptions" /\ ret'.err # "") =>
       UNCHANGED <<path, tx, index, redeem, type, publicKey>>]_vars

====
